---- MODULE Spec2Model ----
(***************************************************************************)
(* Event-driven transmission controller of the low power node              *)
(* (src/src/main.cpp): app_event_handler, ble_data_handler and             *)
(* lora_data_handler, run by a cooperative main loop, with the event       *)
(* producers (timer, radio callbacks, link callbacks) setting bits of      *)
(* g_task_event_type from their own context between any two steps of the   *)
(* main loop.  The bitmask is modelled as the set of the kinds whose bit    *)
(* is set: x | K is x \cup {K}, x & N_K is x \ {K}, (x & K) == K is        *)
(* K \in x.                                                                *)
(***************************************************************************)
EXTENDS Integers, FiniteSets, Sequences, TLC

VARIABLES
    g_task_event_type,     \* the shared event flags
    reg,                   \* value loaded by the read-modify-write in progress
    pc,                    \* position of the main loop: [k: kind, at: stage]
    send_fail,             \* uint8_t send_fail
    lorawan_enable,        \* g_lorawan_settings.lorawan_enable
    confirmed_msg_enabled, \* g_lorawan_settings.confirmed_msg_enabled != LMH_UNCONFIRMED_MSG
    g_lpwan_has_joined,
    g_join_result,
    g_rx_fin_result,
    payload,               \* number of records in the Cayenne payload buffer
    result,                \* last value returned by send_lora_packet
    logs,                  \* log lines of the handling in progress
    lora_calls,            \* send_lora_packet calls of the handling in progress
    p2p_calls,             \* send_p2p_packet calls of the handling in progress
    read_joined,           \* value of g_lpwan_has_joined read at line 137
    read_ack,              \* value of g_rx_fin_result read at line 273
    api_reset_calls,       \* api_reset calls since boot
    nak_handled,           \* tx-finished handlings since boot that read acknowledged = false
    owed,                  \* kinds set by a producer and not yet taken by a clear
    re_set,                \* a producer set the kind being handled after its test
    re_set_after,          \* ... and after its clear had completed
    readings,              \* int readings of the battery loop
    batt_level_f,          \* float batt_level_f, as the exact fraction num/den
    samples,               \* the values read_batt returned in this handling
    voltage,               \* the value passed to payload.addVoltage, num/den
    g_rx_data_len,         \* length of the received data
    idx,                   \* int idx of the hex loop
    log_idx,               \* uint8_t log_idx
    max_written,           \* highest index of log_buff written so far, -1 if none
    wrapped,               \* log_idx has wrapped around
    ble_fifo,              \* bytes waiting in g_ble_uart
    at_input,              \* bytes passed to at_serial_input in this handling
    arrived,               \* bytes in the FIFO at the loop's first test or delivered during the loop
    avail,                 \* number of bytes in the FIFO at the loop's first test
    nwk_skey,              \* network session key held by the radio stack
    app_skey,              \* application session key held by the radio stack
    session_key,           \* uint8_t session_key[16] of the handler, -1 out of scope
    key_log,               \* the key values logged in this handling
    join_calls,            \* lmh_join calls of the handling in progress
    sets,                  \* producer sets of each kind since its last clear
    consumed               \* producer sets taken by the clear of this handling

vars == <<g_task_event_type, reg, pc, send_fail, lorawan_enable,
          confirmed_msg_enabled, g_lpwan_has_joined, g_join_result,
          g_rx_fin_result, payload, result, logs, lora_calls, p2p_calls,
          read_joined, read_ack, api_reset_calls, nak_handled,
          owed, re_set, re_set_after, readings, batt_level_f, samples,
          voltage, g_rx_data_len, idx, log_idx, max_written, wrapped,
          ble_fifo, at_input, arrived, avail, nwk_skey, app_skey, session_key,
          key_log, join_calls, sets, consumed>>

Kinds == {"STATUS", "LORA_JOIN_FIN", "LORA_DATA", "LORA_TX_FIN", "BLE_DATA"}

EnqueueResults == {"LMH_SUCCESS", "LMH_BUSY", "LMH_ERROR"}

SendFailLimit == 10

MaxCount == 12

Uint8 == 256

g_enable_ble == TRUE

Idle == [k |-> "none", at |-> "idle"]

Halted == [k |-> "none", at |-> "reset"]

At(k, s) == [k |-> k, at |-> s]

----------------------------------------------------------------------------
(* Order of the handlers.                                                  *)

DispatchOrder == <<"app_event_handler", "lora_data_handler", "ble_data_handler">>

LoraOrder_Swapped == <<"LORA_DATA", "LORA_JOIN_FIN", "LORA_TX_FIN">>

LoraOrder == <<"LORA_JOIN_FIN", "LORA_DATA", "LORA_TX_FIN">>

FunctionKinds(f) ==
    CASE f = "app_event_handler" -> <<"STATUS">>
      [] f = "lora_data_handler" -> LoraOrder
      [] f = "ble_data_handler"  -> <<"BLE_DATA">>

KindSeq ==
    FunctionKinds(DispatchOrder[1]) \o FunctionKinds(DispatchOrder[2])
        \o FunctionKinds(DispatchOrder[3])

Index(seq, k) == CHOOSE i \in 1..Len(seq) : seq[i] = k

NextTest(k) ==
    LET i == Index(KindSeq, k)
    IN  IF i < Len(KindSeq) THEN At(KindSeq[i + 1], "test") ELSE Idle

----------------------------------------------------------------------------
(* The statements of the handlers as functions of what they read.          *)

TestBit_Always(v, k) == TRUE

TestBit(v, k) == k \in v

ClearBit_None(v, k) == v

ClearBit(v, k) == v \ {k}

EntryLog(k) ==
    CASE k = "STATUS"    -> "Timer wakeup"
      [] k = "LORA_DATA" -> "Received package over LoRa"
      [] k = "BLE_DATA"  -> "RECEIVED BLE"

LogBeforeClear(k) == k = "BLE_DATA"

PayloadReset_Keep(n) == n

PayloadReset(n) == 0

PayloadAdd(n) == n + 1

EnqueueLog_SilentBusy(res) ==
    CASE res = "LMH_SUCCESS" -> {"Packet enqueued"}
      [] res = "LMH_ERROR"   -> {"Packet error, too big to send with current DR"}
      [] OTHER               -> {}

EnqueueLog(res) ==
    CASE res = "LMH_SUCCESS" -> {"Packet enqueued"}
      [] res = "LMH_BUSY"    -> {"LoRa transceiver is busy"}
      [] res = "LMH_ERROR"   -> {"Packet error, too big to send with current DR"}
      [] OTHER               -> {}

StatusTx_P2POnlyJoined(enable, joined, res) ==
    IF enable
    THEN IF joined
         THEN [lora |-> 1, p2p |-> 0, log |-> EnqueueLog(res)]
         ELSE [lora |-> 0, p2p |-> 0, log |-> {"Network not joined, skip sending"}]
    ELSE [lora |-> 0, p2p |-> IF joined THEN 1 ELSE 0, log |-> {}]

StatusTx_IgnoreJoin(enable, joined, res) ==
    IF enable
    THEN [lora |-> 1, p2p |-> 0, log |-> EnqueueLog(res)]
    ELSE [lora |-> 0, p2p |-> 1, log |-> {}]

StatusTx_RetryBusy(enable, joined, res) ==
    IF enable
    THEN IF joined
         THEN [lora |-> IF res = "LMH_BUSY" THEN 2 ELSE 1, p2p |-> 0,
               log |-> EnqueueLog(res)]
         ELSE [lora |-> 0, p2p |-> 0, log |-> {"Network not joined, skip sending"}]
    ELSE [lora |-> 0, p2p |-> 1, log |-> {}]

StatusTx(enable, joined, res) ==
    IF enable
    THEN IF joined
         THEN [lora |-> 1, p2p |-> 0, log |-> EnqueueLog(res)]
         ELSE [lora |-> 0, p2p |-> 0, log |-> {"Network not joined, skip sending"}]
    ELSE [lora |-> 0, p2p |-> 1, log |-> {}]

JoinLog(ok) ==
    IF ok THEN {"Successfully joined network", "NwSkey", "AppSkey", "DevAddr"}
    ELSE {"Join network failed"}

DataLog == {"RSSI SNR", "hex"}

TxFinLog(enable, confirmed, ack) ==
    IF enable
    THEN IF ~confirmed
         THEN {"LPWAN TX cycle finished"}
         ELSE {IF ack THEN "LPWAN TX cycle finished ACK" ELSE "LPWAN TX cycle failed NAK"}
    ELSE {"P2P TX finished"}

TxFinCounts_AnyMode(enable, confirmed) == TRUE

TxFinCounts(enable, confirmed) == enable

TxFinCount_Eleventh(cnt, ack) ==
    IF ~ack
    THEN LET n == (cnt + 1) % Uint8
         IN  [send_fail |-> n, reset |-> n = SendFailLimit + 1]
    ELSE [send_fail |-> cnt, reset |-> FALSE]

TxFinCount_Always(cnt, ack) ==
    LET n == (cnt + 1) % Uint8
    IN  [send_fail |-> n, reset |-> n = SendFailLimit]

TxFinCount_ResetOnAck(cnt, ack) ==
    IF ~ack
    THEN LET n == (cnt + 1) % Uint8
         IN  [send_fail |-> n, reset |-> n = SendFailLimit]
    ELSE [send_fail |-> 0, reset |-> FALSE]

TxFinCount(cnt, ack) ==
    IF ~ack
    THEN LET n == (cnt + 1) % Uint8
         IN  [send_fail |-> n, reset |-> n = SendFailLimit]
    ELSE [send_fail |-> cnt, reset |-> FALSE]

Sat(n) == IF n < MaxCount THEN n + 1 ELSE n

----------------------------------------------------------------------------
(* State after construction and setup_app.                                 *)

Globals(enable, confirmed, p, lg) ==
    /\ g_task_event_type = {}
    /\ reg = {}
    /\ pc = p
    /\ send_fail = 0
    /\ lorawan_enable = enable
    /\ confirmed_msg_enabled = confirmed
    /\ g_lpwan_has_joined = FALSE
    /\ g_join_result = FALSE
    /\ g_rx_fin_result = FALSE
    /\ payload = 0
    /\ result = "none"
    /\ logs = lg
    /\ lora_calls = 0
    /\ p2p_calls = 0
    /\ read_joined = FALSE
    /\ read_ack = TRUE
    /\ api_reset_calls = 0
    /\ nak_handled = 0
    /\ owed = {}
    /\ re_set = FALSE
    /\ re_set_after = FALSE
    /\ readings = 0
    /\ batt_level_f = [num |-> 0, den |-> 1]
    /\ samples = <<>>
    /\ voltage = [num |-> 0, den |-> 0]
    /\ idx = 0
    /\ log_idx = 0
    /\ max_written = -1
    /\ wrapped = FALSE
    /\ ble_fifo = <<>>
    /\ at_input = <<>>
    /\ arrived = <<>>
    /\ avail = 0
    /\ nwk_skey = 0
    /\ app_skey = 0
    /\ session_key = -1
    /\ key_log = <<>>
    /\ join_calls = 0
    /\ sets = [k \in Kinds |-> 0]
    /\ consumed = 0

Boot(enable, confirmed) ==
    /\ Globals(enable, confirmed, Idle, {})
    /\ g_rx_data_len = 0

Init == \E enable \in BOOLEAN, confirmed \in BOOLEAN : Boot(enable, confirmed)

Running == IF pc.at \in {"test", "idle", "reset"} THEN "none" ELSE pc.k

Cleared ==
    pc.at \in {"body", "read", "batt", "volt", "send", "hex", "count", "delay",
              "drain", "ret"}

config == <<lorawan_enable, confirmed_msg_enabled>>

radio == <<g_lpwan_has_joined, g_join_result, g_rx_fin_result>>

status == <<payload, result, lora_calls, p2p_calls, read_joined>>

counter == <<send_fail, read_ack, api_reset_calls, nak_handled>>

flags == <<g_task_event_type, reg, owed, re_set, re_set_after>>

battv == <<readings, batt_level_f, samples, voltage>>

hexv == <<g_rx_data_len, idx, log_idx, max_written, wrapped>>

blev == <<ble_fifo, at_input, arrived, avail>>

joinv == <<nwk_skey, app_skey, session_key, key_log, join_calls>>

coalv == <<sets, consumed>>

----------------------------------------------------------------------------
(* Event producers, running between any two steps of the main loop.        *)

(* g_task_event_type |= K                                                  *)
SetBit(k) ==
    /\ g_task_event_type' = g_task_event_type \cup {k}
    /\ owed' = owed \cup {k}
    /\ re_set' = (re_set \/ k = Running)
    /\ re_set_after' = (re_set_after \/ (k = Running /\ Cleared))

TimerCb ==
    /\ pc # Halted
    /\ SetBit("STATUS")
    /\ UNCHANGED <<reg, pc, config, radio, status, logs, send_fail, read_ack,
                   api_reset_calls, nak_handled>>
    /\ UNCHANGED <<battv, hexv, blev, joinv, coalv>>

JoinCb ==
    /\ pc # Halted
    /\ \E ok \in BOOLEAN :
          /\ g_join_result' = ok
          /\ g_lpwan_has_joined' = ok
    /\ SetBit("LORA_JOIN_FIN")
    /\ UNCHANGED <<reg, pc, config, g_rx_fin_result, status, logs, send_fail,
                   read_ack, api_reset_calls, nak_handled>>
    /\ UNCHANGED <<battv, hexv, blev, joinv, coalv>>

RxCb ==
    /\ pc # Halted
    /\ SetBit("LORA_DATA")
    /\ UNCHANGED <<reg, pc, config, radio, status, logs, send_fail, read_ack,
                   api_reset_calls, nak_handled>>
    /\ UNCHANGED <<battv, hexv, blev, joinv, coalv>>

TxCb ==
    /\ pc # Halted
    /\ \E ack \in BOOLEAN : g_rx_fin_result' = ack
    /\ SetBit("LORA_TX_FIN")
    /\ UNCHANGED <<reg, pc, config, g_lpwan_has_joined, g_join_result, status,
                   logs, send_fail, read_ack, api_reset_calls, nak_handled>>
    /\ UNCHANGED <<battv, hexv, blev, joinv, coalv>>

BleCb ==
    /\ pc # Halted
    /\ SetBit("BLE_DATA")
    /\ UNCHANGED <<reg, pc, config, radio, status, logs, send_fail, read_ack,
                   api_reset_calls, nak_handled>>
    /\ UNCHANGED <<battv, hexv, blev, joinv, coalv>>

----------------------------------------------------------------------------
(* The main loop: one dispatch cycle calls the handlers in DispatchOrder.  *)

DispatchStart ==
    /\ pc = Idle
    /\ pc' = At(KindSeq[1], "test")
    /\ UNCHANGED <<g_task_event_type, reg, config, radio, status, logs,
                   counter, owed, re_set, re_set_after>>
    /\ UNCHANGED <<battv, hexv, blev, joinv, coalv>>

(* if ((g_task_event_type & K) == K)                                       *)
Test(k) ==
    /\ pc = At(k, "test")
    /\ pc' = IF TestBit(g_task_event_type, k) /\ (k = "BLE_DATA" => g_enable_ble)
             THEN At(k, IF LogBeforeClear(k) THEN "log" ELSE "load")
             ELSE NextTest(k)
    /\ logs' = {}
    /\ re_set' = FALSE
    /\ re_set_after' = FALSE
    /\ UNCHANGED <<g_task_event_type, reg, config, radio, status, counter, owed>>
    /\ UNCHANGED <<battv, hexv, blev, joinv, coalv>>

(* a log line written before the bit is cleared                            *)
LogFirst(k) ==
    /\ pc = At(k, "log")
    /\ logs' = logs \cup {EntryLog(k)}
    /\ pc' = At(k, "load")
    /\ UNCHANGED <<g_task_event_type, reg, config, radio, status, counter,
                   owed, re_set, re_set_after>>
    /\ UNCHANGED <<battv, hexv, blev, joinv, coalv>>

(* g_task_event_type &= N_K: the load                                      *)
Load(k) ==
    /\ pc = At(k, "load")
    /\ reg' = g_task_event_type
    /\ pc' = At(k, "store")
    /\ UNCHANGED <<g_task_event_type, config, radio, status, logs, counter,
                   owed, re_set, re_set_after>>
    /\ UNCHANGED <<battv, hexv, blev, joinv, coalv>>

(* g_task_event_type &= N_K: the store of the masked value                 *)
StoreMasked(k) ==
    /\ pc = At(k, "store")
    /\ g_task_event_type' = ClearBit(reg, k)
    /\ reg' = {}
    /\ owed' = owed \ {k}
    /\ pc' = At(k, "body")
    /\ UNCHANGED <<config, radio, status, logs, counter, re_set,
                   re_set_after>>
    /\ UNCHANGED <<battv, hexv, blev, joinv>>

Store(k) == StoreMasked(k) /\ UNCHANGED coalv

BodyLog(k) == IF LogBeforeClear(k) THEN {} ELSE {EntryLog(k)}

(* app_event_handler, lines 120-124                                        *)
StatusBuild ==
    /\ pc = At("STATUS", "body")
    /\ logs' = logs \cup BodyLog("STATUS")
    /\ payload' = PayloadReset(payload)
    /\ pc' = At("STATUS", "read")
    /\ UNCHANGED <<g_task_event_type, reg, config, radio, result, lora_calls,
                   p2p_calls, read_joined, counter, owed, re_set,
                   re_set_after>>
    /\ UNCHANGED <<battv, hexv, blev, joinv, coalv>>

(* app_event_handler, lines 126-133: the battery readings and addVoltage   *)
StatusAdd ==
    /\ pc = At("STATUS", "read")
    /\ payload' = PayloadAdd(payload)
    /\ pc' = At("STATUS", "send")
    /\ UNCHANGED <<g_task_event_type, reg, config, radio, result, lora_calls,
                   p2p_calls, read_joined, logs, counter, owed, re_set,
                   re_set_after>>
    /\ UNCHANGED <<battv, hexv, blev, joinv, coalv>>

(* app_event_handler, lines 135-163                                        *)
StatusSend ==
    /\ pc = At("STATUS", "send")
    /\ \E res \in EnqueueResults :
          LET t == StatusTx(lorawan_enable, g_lpwan_has_joined, res)
          IN  /\ lora_calls' = lora_calls + t.lora
              /\ p2p_calls' = p2p_calls + t.p2p
              /\ logs' = logs \cup t.log
              /\ result' = IF t.lora > 0 THEN res ELSE result
    /\ read_joined' = g_lpwan_has_joined
    /\ pc' = At("STATUS", "ret")
    /\ UNCHANGED <<g_task_event_type, reg, config, radio, payload, counter,
                   owed, re_set, re_set_after>>
    /\ UNCHANGED <<battv, hexv, blev, joinv, coalv>>

(* lora_data_handler, lines 209-232                                        *)
JoinBody ==
    /\ pc = At("LORA_JOIN_FIN", "body")
    /\ logs' = logs \cup JoinLog(g_join_result)
    /\ pc' = At("LORA_JOIN_FIN", "ret")
    /\ UNCHANGED <<g_task_event_type, reg, config, radio, status, counter,
                   owed, re_set, re_set_after>>
    /\ UNCHANGED <<battv, hexv, blev, joinv, coalv>>

(* lora_data_handler, lines 245-255                                        *)
DataBody ==
    /\ pc = At("LORA_DATA", "body")
    /\ logs' = logs \cup BodyLog("LORA_DATA") \cup DataLog
    /\ pc' = At("LORA_DATA", "ret")
    /\ UNCHANGED <<g_task_event_type, reg, config, radio, status, counter,
                   owed, re_set, re_set_after>>
    /\ UNCHANGED <<battv, hexv, blev, joinv, coalv>>

(* lora_data_handler, lines 263-272 and 286-289                            *)
TxLog ==
    /\ pc = At("LORA_TX_FIN", "body")
    /\ logs' = logs \cup TxFinLog(lorawan_enable, confirmed_msg_enabled, g_rx_fin_result)
    /\ pc' = IF TxFinCounts(lorawan_enable, confirmed_msg_enabled)
             THEN At("LORA_TX_FIN", "count") ELSE At("LORA_TX_FIN", "ret")
    /\ UNCHANGED <<g_task_event_type, reg, config, radio, status, counter,
                   owed, re_set, re_set_after>>
    /\ UNCHANGED <<battv, hexv, blev, joinv, coalv>>

(* lora_data_handler, lines 273-280                                        *)
TxCount ==
    /\ pc = At("LORA_TX_FIN", "count")
    /\ LET t == TxFinCount(send_fail, g_rx_fin_result)
       IN  /\ send_fail' = t.send_fail
           /\ pc' = IF t.reset THEN At("LORA_TX_FIN", "delay")
                    ELSE At("LORA_TX_FIN", "ret")
    /\ read_ack' = g_rx_fin_result
    /\ nak_handled' = IF g_rx_fin_result THEN nak_handled ELSE Sat(nak_handled)
    /\ UNCHANGED <<g_task_event_type, reg, config, radio, status, logs,
                   api_reset_calls, owed, re_set, re_set_after>>
    /\ UNCHANGED <<battv, hexv, blev, joinv, coalv>>

(* lora_data_handler, lines 281-282: delay(100); api_reset();              *)
ApiReset ==
    /\ pc = At("LORA_TX_FIN", "delay")
    /\ api_reset_calls' = Sat(api_reset_calls)
    /\ pc' = Halted
    /\ UNCHANGED <<g_task_event_type, reg, config, radio, status, logs,
                   send_fail, read_ack, nak_handled, owed, re_set,
                   re_set_after>>
    /\ UNCHANGED <<battv, hexv, blev, joinv, coalv>>

(* ble_data_handler, lines 189-194                                         *)
BleBody ==
    /\ pc = At("BLE_DATA", "body")
    /\ logs' = logs \cup BodyLog("BLE_DATA")
    /\ pc' = At("BLE_DATA", "ret")
    /\ UNCHANGED <<g_task_event_type, reg, config, radio, status, counter,
                   owed, re_set, re_set_after>>
    /\ UNCHANGED <<battv, hexv, blev, joinv, coalv>>

(* the end of the if block of kind k                                       *)
Return(k) ==
    /\ pc = At(k, "ret")
    /\ pc' = NextTest(k)
    /\ logs' = {}
    /\ lora_calls' = 0
    /\ p2p_calls' = 0
    /\ read_joined' = FALSE
    /\ read_ack' = TRUE
    /\ re_set' = FALSE
    /\ re_set_after' = FALSE
    /\ result' = "none"
    /\ at_input' = <<>>
    /\ arrived' = <<>>
    /\ avail' = 0
    /\ key_log' = <<>>
    /\ join_calls' = 0
    /\ UNCHANGED <<g_task_event_type, reg, config, radio, payload, send_fail,
                   api_reset_calls, nak_handled, owed>>
    /\ UNCHANGED <<battv, hexv, ble_fifo, nwk_skey, app_skey, session_key,
                   coalv>>

(* the restart: the globals get their initial values again, the stored     *)
(* settings are kept                                                       *)
Reboot ==
    /\ pc = Halted
    /\ g_task_event_type' = {}
    /\ reg' = {}
    /\ pc' = Idle
    /\ send_fail' = 0
    /\ g_lpwan_has_joined' = FALSE
    /\ g_join_result' = FALSE
    /\ g_rx_fin_result' = FALSE
    /\ payload' = 0
    /\ result' = "none"
    /\ logs' = {}
    /\ lora_calls' = 0
    /\ p2p_calls' = 0
    /\ read_joined' = FALSE
    /\ read_ack' = TRUE
    /\ api_reset_calls' = 0
    /\ nak_handled' = 0
    /\ owed' = {}
    /\ re_set' = FALSE
    /\ re_set_after' = FALSE
    /\ readings' = 0
    /\ batt_level_f' = [num |-> 0, den |-> 1]
    /\ samples' = <<>>
    /\ voltage' = [num |-> 0, den |-> 0]
    /\ g_rx_data_len' = 0
    /\ idx' = 0
    /\ log_idx' = 0
    /\ max_written' = -1
    /\ wrapped' = FALSE
    /\ ble_fifo' = <<>>
    /\ at_input' = <<>>
    /\ arrived' = <<>>
    /\ avail' = 0
    /\ nwk_skey' = 0
    /\ app_skey' = 0
    /\ session_key' = -1
    /\ key_log' = <<>>
    /\ join_calls' = 0
    /\ sets' = [k \in Kinds |-> 0]
    /\ consumed' = 0
    /\ UNCHANGED config

Producer == TimerCb \/ JoinCb \/ RxCb \/ TxCb \/ BleCb

Handler ==
    \/ DispatchStart
    \/ \E k \in Kinds : Test(k)
    \/ \E k \in Kinds : LogFirst(k)
    \/ \E k \in Kinds : Load(k)
    \/ \E k \in Kinds : Store(k)
    \/ StatusBuild
    \/ StatusAdd
    \/ StatusSend
    \/ JoinBody
    \/ DataBody
    \/ TxLog
    \/ TxCount
    \/ ApiReset
    \/ BleBody
    \/ \E k \in Kinds : Return(k)

Next == Producer \/ Handler \/ Reboot

Spec == Init /\ [][Next]_vars

TypeOK ==
    /\ g_task_event_type \subseteq Kinds
    /\ reg \subseteq Kinds
    /\ send_fail \in 0..(Uint8 - 1)
    /\ payload \in 0..1
    /\ result \in EnqueueResults \cup {"none"}
    /\ lora_calls \in 0..1
    /\ p2p_calls \in 0..1
    /\ owed \subseteq Kinds

----------------------------------------------------------------------------
(* Failure counter and restart.                                            *)

(* C1: with wide-area and confirmed mode on, counting from boot, api_reset *)
(* is called exactly once, in the handling of the 10th tx-finished event   *)
(* read as not acknowledged, and never while fewer than 10 were handled.   *)
C1_RestartAtTenthNak ==
    (lorawan_enable /\ confirmed_msg_enabled) =>
        /\ nak_handled <= SendFailLimit
        /\ api_reset_calls = (IF pc = Halted THEN 1 ELSE 0)
        /\ (pc = Halted => nak_handled = SendFailLimit)
        /\ (nak_handled = SendFailLimit =>
                pc \in {At("LORA_TX_FIN", "delay"), Halted})

C1_Witness ==
    /\ lorawan_enable /\ confirmed_msg_enabled
    /\ pc = Halted
    /\ api_reset_calls = 1
    /\ nak_handled = SendFailLimit

(* C2 as stated: with wide-area mode on and confirmed mode off, no step of *)
(* the tx-finished handling changes the failure counter or calls restart,  *)
(* whatever the tx result flag.                                            *)
C2_Original ==
    [][ (lorawan_enable /\ ~confirmed_msg_enabled /\ pc.k = "LORA_TX_FIN") =>
            (send_fail' = send_fail /\ api_reset_calls' = api_reset_calls) ]_vars

(* C2 amended: with wide-area mode on and confirmed mode off, a            *)
(* tx-finished handling that reads the result flag true leaves the counter *)
(* unchanged and calls no restart; one that reads it false adds one to the *)
(* counter and goes on to restart exactly when the counter reaches 10.     *)
C2_UnconfirmedTxFin ==
    [][ (lorawan_enable /\ ~confirmed_msg_enabled /\ pc.k = "LORA_TX_FIN"
            /\ pc' # pc) =>
            IF pc.at = "count"
            THEN IF g_rx_fin_result
                 THEN send_fail' = send_fail /\ pc' = At("LORA_TX_FIN", "ret")
                 ELSE /\ send_fail' = send_fail + 1
                      /\ (pc' = At("LORA_TX_FIN", "delay"))
                            = (send_fail' = SendFailLimit)
                      /\ pc' \in {At("LORA_TX_FIN", "delay"),
                                  At("LORA_TX_FIN", "ret")}
            ELSE /\ send_fail' = send_fail
                 /\ (api_reset_calls' # api_reset_calls) = (pc.at = "delay") ]_vars

C2_Witness ==
    /\ lorawan_enable /\ ~confirmed_msg_enabled
    /\ pc = At("LORA_TX_FIN", "ret")
    /\ ~read_ack
    /\ send_fail = 1

(* C3 as stated: the counter counts consecutive failures, a tx-finished    *)
(* handling that reads acknowledged = true sets the counter to zero.       *)
C3_Original ==
    [][ (lorawan_enable /\ confirmed_msg_enabled
            /\ pc = At("LORA_TX_FIN", "count") /\ g_rx_fin_result /\ pc' # pc) =>
            send_fail' = 0 ]_vars

(* C4: with wide-area and confirmed mode on, the tx-finished handling adds *)
(* exactly one to the counter on acknowledged = false and leaves it        *)
(* unchanged on acknowledged = true; no step before the restart decreases  *)
(* the counter.                                                            *)
C4_CounterOnlyGrows ==
    [][ /\ (lorawan_enable /\ confirmed_msg_enabled
                /\ pc = At("LORA_TX_FIN", "count") /\ pc' # pc) =>
                send_fail' = IF g_rx_fin_result THEN send_fail ELSE send_fail + 1
        /\ (pc # Halted => send_fail' >= send_fail) ]_vars

C4_Witness ==
    /\ lorawan_enable /\ confirmed_msg_enabled
    /\ pc = At("LORA_TX_FIN", "ret")
    /\ read_ack
    /\ send_fail > 0

----------------------------------------------------------------------------
(* Transmission decision of the status handling.                           *)

StatusRet == At("STATUS", "ret")

(* C5: with wide-area mode off, one status handling makes exactly one      *)
(* send_p2p_packet call and no send_lora_packet call, joined or not.       *)
C5_P2POnce ==
    ~lorawan_enable =>
        /\ lora_calls = 0
        /\ p2p_calls = (IF pc = StatusRet THEN 1 ELSE 0)

C5_Witness ==
    /\ ~lorawan_enable
    /\ pc = StatusRet
    /\ ~read_joined
    /\ p2p_calls = 1
    /\ lora_calls = 0

(* C6: with wide-area mode on and the join flag read false, a status       *)
(* handling makes no transmission call of either kind, sets no event bit   *)
(* for a retry, and send_lora_packet is called only by a handling that     *)
(* read the join flag true.                                                *)
C6_NotJoinedSkips ==
    /\ [](lorawan_enable =>
            /\ (pc = StatusRet /\ ~read_joined) =>
                    (lora_calls = 0 /\ p2p_calls = 0 /\ result = "none")
            /\ (lora_calls > 0 => read_joined))
    /\ [][ (pc.k = "STATUS" /\ pc' # pc) =>
                g_task_event_type' \subseteq g_task_event_type ]_vars

C6_Witness ==
    /\ lorawan_enable
    /\ pc = StatusRet
    /\ ~read_joined
    /\ lora_calls = 0
    /\ p2p_calls = 0
    /\ "Network not joined, skip sending" \in logs

(* C7: with wide-area mode on and joined, one status handling calls        *)
(* send_lora_packet exactly once, and whichever of the three results it    *)
(* gets, there is no second enqueue, no send_p2p_packet, no change of the  *)
(* failure counter and no restart in that handling.                        *)
C7_EnqueueOnce ==
    /\ []((lorawan_enable /\ pc = StatusRet /\ read_joined) =>
            (lora_calls = 1 /\ p2p_calls = 0 /\ result \in EnqueueResults))
    /\ [][ (pc.k = "STATUS" /\ pc' # pc) =>
                /\ send_fail' = send_fail
                /\ api_reset_calls' = api_reset_calls
                /\ pc' # Halted ]_vars

C7_Witness ==
    /\ lorawan_enable
    /\ pc = StatusRet
    /\ read_joined
    /\ result = "LMH_BUSY"
    /\ lora_calls = 1
    /\ "LoRa transceiver is busy" \in logs

----------------------------------------------------------------------------
(* Event flags.                                                            *)

(* C8 as stated: for each of the five kinds the bit is cleared before any  *)
(* processing of the event, and a producer setting the bit again while the *)
(* handler is running leaves it set at the handler's return.               *)
C8_Original ==
    /\ (Running # "none" /\ logs # {}) => Cleared
    /\ (pc.at = "ret" /\ re_set) => pc.k \in g_task_event_type

(* C8 amended: for status, join-finished, data-received and tx-finished    *)
(* the clear precedes every other statement of the handling, for link-data *)
(* the one log line RECEIVED BLE precedes it; the bit is clear at the      *)
(* handler's return unless a producer set it again, and a producer setting *)
(* it again after the clear has completed leaves it set at the return.     *)
C8_ClearThenProcess ==
    /\ (Running \in Kinds \ {"BLE_DATA"} /\ logs # {}) => Cleared
    /\ (Running = "BLE_DATA" /\ ~Cleared) => logs \subseteq {"RECEIVED BLE"}
    /\ (pc.at = "ret" /\ ~re_set) => pc.k \notin g_task_event_type
    /\ (pc.at = "ret" /\ re_set_after) => pc.k \in g_task_event_type

C8_Witness ==
    /\ pc.at = "ret"
    /\ re_set_after
    /\ pc.k \in g_task_event_type
    /\ logs # {}

(* C9 as stated: with producers setting bits at any point of the main      *)
(* loop, also between the load and the store of a clear, every bit a       *)
(* producer set is still pending or was taken by the clear of its own      *)
(* kind, and no bit is pending that no producer set.                       *)
C9_Original == owed = g_task_event_type

(* C10: in a dispatch cycle the kinds are examined in the order status,    *)
(* join-finished, data-received, tx-finished, link-data; a kind whose bit  *)
(* is set is handled, and the next kind is examined only from the test of  *)
(* a bit that is not set or from the return of the handling.               *)
ClaimOrder == <<"STATUS", "LORA_JOIN_FIN", "LORA_DATA", "LORA_TX_FIN", "BLE_DATA">>

Rank(k) == Index(ClaimOrder, k)

C10_FixedOrder ==
    [][ /\ (pc = Idle /\ pc' # pc) => pc' = At(ClaimOrder[1], "test")
        /\ (pc.k \in Kinds /\ pc'.k \in Kinds /\ pc'.k # pc.k) =>
                /\ Rank(pc'.k) = Rank(pc.k) + 1
                /\ pc.at \in {"test", "ret"}
                /\ pc'.at = "test"
        /\ (pc.k \in Kinds /\ pc' = Idle) =>
                (pc.k = ClaimOrder[5] /\ pc.at \in {"test", "ret"})
        /\ (pc.at = "test" /\ pc.k \in g_task_event_type /\ pc' # pc) =>
                (pc'.k = pc.k /\ pc'.at # "test") ]_vars

C10_Witness ==
    /\ pc = At("STATUS", "body")
    /\ Kinds \ {"STATUS"} \subseteq g_task_event_type

----------------------------------------------------------------------------
(* Payload, log lines and ownership of the failure counter.                *)

(* C12: in every status handling the payload buffer is empty after the     *)
(* reset and before the reading is appended, and holds exactly one voltage *)
(* record when send_lora_packet or send_p2p_packet is called, whatever     *)
(* number of status events came before.                                    *)
C12_OneRecordAtSend ==
    /\ pc = At("STATUS", "read") => payload = 0
    /\ pc \in {At("STATUS", "send"), StatusRet} => payload = 1
    /\ (lora_calls + p2p_calls > 0) => payload = 1

C12_Witness ==
    /\ pc = StatusRet
    /\ payload = 1
    /\ lora_calls + p2p_calls = 1
    /\ "Timer wakeup" \in logs

OutcomeLogs ==
    {"Packet enqueued", "LoRa transceiver is busy",
     "Packet error, too big to send with current DR",
     "Network not joined, skip sending"}

(* C16 as stated: every status handling ends with at least one outcome log *)
(* line on every branch of the transmission decision, and a tx-finished    *)
(* handling that increments the failure counter has logged the failure.    *)
C16_Original ==
    /\ pc = StatusRet => logs \cap OutcomeLogs # {}
    /\ (pc.k = "LORA_TX_FIN" /\ pc.at \in {"delay", "ret"} /\ lorawan_enable
            /\ ~read_ack) => "LPWAN TX cycle failed NAK" \in logs

(* C16 amended: a status handling in wide-area mode logs exactly one       *)
(* outcome line (not joined, enqueued, busy or too big) after Timer        *)
(* wakeup, in peer-to-peer mode it logs Timer wakeup only; a tx-finished   *)
(* handling logs exactly one line, chosen by the mode and, in confirmed    *)
(* mode, by the result flag as read for the log, and the increment and the *)
(* restart add no line of their own.                                       *)
C16_OutcomeLines ==
    /\ pc = StatusRet =>
            logs = {"Timer wakeup"} \cup
                (IF ~lorawan_enable THEN {}
                 ELSE IF ~read_joined THEN {"Network not joined, skip sending"}
                 ELSE IF result = "LMH_SUCCESS" THEN {"Packet enqueued"}
                 ELSE IF result = "LMH_BUSY" THEN {"LoRa transceiver is busy"}
                 ELSE {"Packet error, too big to send with current DR"})
    /\ (pc.k = "LORA_TX_FIN" /\ pc.at \in {"count", "delay", "ret"}) =>
            IF ~lorawan_enable THEN logs = {"P2P TX finished"}
            ELSE IF ~confirmed_msg_enabled THEN logs = {"LPWAN TX cycle finished"}
            ELSE logs \in {{"LPWAN TX cycle finished ACK"},
                           {"LPWAN TX cycle failed NAK"}}

C16_Witness ==
    /\ pc = StatusRet
    /\ lorawan_enable
    /\ read_joined
    /\ result = "LMH_ERROR"
    /\ logs = {"Timer wakeup", "Packet error, too big to send with current DR"}

(* C18: the failure counter and the restart belong to the tx-finished      *)
(* handling in wide-area mode: no producer, no other handling and no       *)
(* tx-finished handling in peer-to-peer mode changes send_fail or calls    *)
(* api_reset (the reboot that follows api_reset starts the counter at 0).  *)
C18_CounterOwner ==
    [][ (send_fail' # send_fail \/ api_reset_calls' # api_reset_calls) =>
            \/ (pc.k = "LORA_TX_FIN" /\ pc.at \in {"count", "delay"}
                    /\ lorawan_enable)
            \/ pc = Halted ]_vars

C18_Witness ==
    /\ ~lorawan_enable
    /\ pc = At("LORA_TX_FIN", "ret")
    /\ ~g_rx_fin_result
    /\ send_fail = 0
    /\ logs = {"P2P TX finished"}

----------------------------------------------------------------------------
(* The battery reading of the status handling, lines 126-133, statement by *)
(* statement.  batt_level_f is kept as an exact fraction; the rounding of  *)
(* the float operations is not represented.                                *)

MaxSampleStep == 1

Samples == {3000 + 1200 * i : i \in 0..MaxSampleStep}

FAdd(f, x) == [num |-> f.num + x * f.den, den |-> f.den]

FDiv(f, d) == [num |-> f.num, den |-> f.den * d]

BattMore_Nine(r) == r < 9

BattMore(r) == r < 10

RECURSIVE SumSeq(_)
SumSeq(q) == IF q = <<>> THEN 0 ELSE Head(q) + SumSeq(Tail(q))

InitBatt ==
    /\ \E enable \in BOOLEAN, confirmed \in BOOLEAN :
          Globals(enable, confirmed, At("STATUS", "read"), {"Timer wakeup"})
    /\ g_rx_data_len = 0

(* float batt_level_f = 0.0; int readings = 0                              *)
BattInit ==
    /\ pc = At("STATUS", "read")
    /\ batt_level_f' = [num |-> 0, den |-> 1]
    /\ readings' = 0
    /\ pc' = At("STATUS", "batt")
    /\ UNCHANGED <<flags, config, radio, status, logs, counter, samples,
                   voltage, hexv, blev, joinv, coalv>>

(* one test of readings < 10: batt_level_f += read_batt(); readings++, or  *)
(* batt_level_f = batt_level_f / 10 after the loop                         *)
BattLoop ==
    /\ pc = At("STATUS", "batt")
    /\ IF BattMore(readings)
       THEN /\ \E x \in Samples :
                  /\ batt_level_f' = FAdd(batt_level_f, x)
                  /\ samples' = Append(samples, x)
            /\ readings' = readings + 1
            /\ pc' = pc
       ELSE /\ batt_level_f' = FDiv(batt_level_f, 10)
            /\ pc' = At("STATUS", "volt")
            /\ UNCHANGED <<samples, readings>>
    /\ UNCHANGED <<flags, config, radio, status, logs, counter, voltage,
                   hexv, blev, joinv, coalv>>

(* payload.addVoltage(LPP_CHANNEL_BATT, batt_level_f / 1000.0)             *)
BattVoltage ==
    /\ pc = At("STATUS", "volt")
    /\ voltage' = FDiv(batt_level_f, 1000)
    /\ payload' = PayloadAdd(payload)
    /\ pc' = At("STATUS", "send")
    /\ UNCHANGED <<flags, config, radio, result, lora_calls, p2p_calls,
                   read_joined, logs, counter, readings, batt_level_f,
                   samples, hexv, blev, joinv, coalv>>

NextBatt == BattInit \/ BattLoop \/ BattVoltage

SpecBatt == InitBatt /\ [][NextBatt]_vars

(* C19: a status handling reads exactly 10 battery samples, and for every  *)
(* sequence of 10 samples the value passed to addVoltage is their sum      *)
(* divided by 10 and then by 1000 (in exact arithmetic).                   *)
C19_MeanOfTen ==
    /\ pc \in {At("STATUS", "volt"), At("STATUS", "send")} =>
            (Len(samples) = 10 /\ readings = 10)
    /\ pc = At("STATUS", "send") =>
            /\ voltage.den > 0
            /\ voltage.num * 10 * 1000 = SumSeq(samples) * voltage.den
            /\ payload = 1

C19_Witness ==
    /\ pc = At("STATUS", "send")
    /\ Len(samples) = 10
    /\ samples[1] # samples[10]
    /\ voltage.num * 10 * 1000 = SumSeq(samples) * voltage.den

----------------------------------------------------------------------------
(* The hex dump of the received data, lines 248-255, statement by          *)
(* statement.                                                              *)

LogBuffSize(len) == len * 3

(* sprintf(&log_buff[log_idx], "%02X ", byte) writes two hex digits, a     *)
(* space and the terminating zero                                          *)
SprintfWrites(li) == {li + j : j \in 0..3}

SetMax(S) == CHOOSE x \in S : \A y \in S : y <= x

InitHex ==
    /\ \E enable \in BOOLEAN, confirmed \in BOOLEAN :
          Globals(enable, confirmed, At("LORA_DATA", "body"), {})
    /\ g_rx_data_len \in 0..(Uint8 - 1)

(* lines 245-249: the log lines, char log_buff[g_rx_data_len * 3] = {0},   *)
(* uint8_t log_idx = 0, int idx = 0                                        *)
HexInit ==
    /\ pc = At("LORA_DATA", "body")
    /\ logs' = logs \cup BodyLog("LORA_DATA") \cup {"RSSI SNR"}
    /\ log_idx' = 0
    /\ idx' = 0
    /\ max_written' = -1
    /\ wrapped' = FALSE
    /\ pc' = At("LORA_DATA", "hex")
    /\ UNCHANGED <<flags, config, radio, status, counter, g_rx_data_len,
                   battv, blev, joinv, coalv>>

(* one test of idx < g_rx_data_len: sprintf and log_idx += 3, or the       *)
(* MYLOG of the buffer after the loop                                      *)
HexLoop ==
    /\ pc = At("LORA_DATA", "hex")
    /\ IF idx < g_rx_data_len
       THEN /\ max_written' = SetMax(SprintfWrites(log_idx) \cup {max_written})
            /\ log_idx' = (log_idx + 3) % Uint8
            /\ wrapped' = (wrapped \/ log_idx + 3 >= Uint8)
            /\ idx' = idx + 1
            /\ pc' = pc
            /\ logs' = logs
       ELSE /\ logs' = logs \cup {"hex"}
            /\ pc' = At("LORA_DATA", "ret")
            /\ UNCHANGED <<max_written, log_idx, wrapped, idx>>
    /\ UNCHANGED <<flags, config, radio, status, counter, g_rx_data_len,
                   battv, blev, joinv, coalv>>

NextHex == HexInit \/ HexLoop

SpecHex == InitHex /\ [][NextHex]_vars

(* C20 as stated: for every received length 0..255, every byte written     *)
(* while formatting, the terminating zero included, lies inside the log    *)
(* buffer of size 3 * length, and log_idx never wraps around.              *)
C20_Original ==
    /\ max_written < LogBuffSize(g_rx_data_len)
    /\ ~wrapped

----------------------------------------------------------------------------
(* The drain loop of ble_data_handler, lines 189-194, one test of          *)
(* available() per step, with the link delivering bytes between the steps. *)

MaxByte == 1

MaxBytes == 3

Terminator == 10

Bytes == 0..MaxByte

BleAvailable_MoreThanOne(fifo) == Len(fifo) > 1

BleAvailable(fifo) == Len(fifo) > 0

AtSerialInput(q, b) == Append(q, b)

(* the link's receive callback: one byte into the FIFO of g_ble_uart and   *)
(* the BLE_DATA bit set; track says whether the bytes of the handling are  *)
(* recorded                                                                *)
BleDeliver(room, track) ==
    /\ pc # Halted
    /\ room
    /\ \E b \in Bytes :
          /\ ble_fifo' = Append(ble_fifo, b)
          /\ arrived' = IF track /\ pc = At("BLE_DATA", "drain")
                        THEN Append(arrived, b) ELSE arrived
    /\ SetBit("BLE_DATA")
    /\ UNCHANGED <<reg, pc, config, radio, status, logs, counter, at_input,
                   avail, battv, hexv, joinv, coalv>>

BleRx == BleDeliver(Len(ble_fifo) + Len(at_input) < MaxBytes, TRUE)

(* line 189, the loop is reached                                           *)
BleEnter ==
    /\ pc = At("BLE_DATA", "body")
    /\ logs' = logs \cup BodyLog("BLE_DATA")
    /\ arrived' = ble_fifo
    /\ avail' = Len(ble_fifo)
    /\ pc' = At("BLE_DATA", "drain")
    /\ UNCHANGED <<flags, config, radio, status, counter, ble_fifo, at_input,
                   battv, hexv, joinv, coalv>>

(* lines 189-194: one test of available() > 0, then either read, forward   *)
(* and delay(5), or the terminator after the loop                          *)
BleStep(track) ==
    /\ pc = At("BLE_DATA", "drain")
    /\ IF BleAvailable(ble_fifo)
       THEN /\ at_input' = IF track THEN AtSerialInput(at_input, Head(ble_fifo))
                           ELSE at_input
            /\ ble_fifo' = Tail(ble_fifo)
            /\ pc' = pc
       ELSE /\ at_input' = AtSerialInput(at_input, Terminator)
            /\ ble_fifo' = ble_fifo
            /\ pc' = At("BLE_DATA", "ret")
    /\ UNCHANGED <<flags, config, radio, status, logs, counter, arrived, avail,
                   battv, hexv, joinv, coalv>>

BleDrain == BleStep(TRUE)

BleLoop ==
    \/ DispatchStart
    \/ \E k \in Kinds : Test(k)
    \/ LogFirst("BLE_DATA")
    \/ Load("BLE_DATA")
    \/ Store("BLE_DATA")
    \/ BleEnter
    \/ BleDrain
    \/ Return("BLE_DATA")

NextBle == BleRx \/ BleLoop

SpecBle == Init /\ [][NextBle]_vars

(* C13 as stated: at the end of a link-data handling that found N bytes    *)
(* available, exactly those N bytes were forwarded, in arrival order,      *)
(* followed by one terminator, also when bytes were delivered during the   *)
(* drain loop.                                                             *)
C13_Original ==
    pc = At("BLE_DATA", "ret") =>
        at_input = SubSeq(arrived, 1, avail) \o <<Terminator>>

(* C13 amended: the handling forwards, in arrival order, every byte that   *)
(* was available at the loop's first test or was delivered before the loop *)
(* found the FIFO empty, followed by exactly one terminator; that is       *)
(* exactly the N bytes when nothing is delivered during the loop.          *)
C13_DrainAll ==
    /\ pc = At("BLE_DATA", "drain") => at_input \o ble_fifo = arrived
    /\ pc = At("BLE_DATA", "ret") =>
          /\ at_input = arrived \o <<Terminator>>
          /\ Len(arrived) = avail =>
                at_input = SubSeq(arrived, 1, avail) \o <<Terminator>>

C13_Witness ==
    /\ pc = At("BLE_DATA", "ret")
    /\ avail >= 1
    /\ Len(arrived) > avail
    /\ arrived[1] # arrived[Len(arrived)]
    /\ at_input = arrived \o <<Terminator>>

----------------------------------------------------------------------------
(* Termination of the drain loop when the link keeps delivering. The FIFO  *)
(* of g_ble_uart holds at most MaxFifo bytes; the bytes of the handling    *)
(* are not recorded here. The main loop always takes its next step.        *)

MaxFifo == 2

BleRxLive == BleDeliver(Len(ble_fifo) < MaxFifo, FALSE)

BleDrainLive == BleStep(FALSE)

BleLoopLive ==
    \/ DispatchStart
    \/ \E k \in Kinds : Test(k)
    \/ LogFirst("BLE_DATA")
    \/ Load("BLE_DATA")
    \/ Store("BLE_DATA")
    \/ BleEnter
    \/ BleDrainLive
    \/ Return("BLE_DATA")

NextBleLive == BleRxLive \/ BleLoopLive

SpecBleLive == Init /\ [][NextBleLive]_vars /\ WF_vars(BleLoopLive)

(* C17 as stated: every handler invocation terminates; the drain loop of   *)
(* the link-data handler reaches the handler's end also when the link      *)
(* keeps delivering bytes during the inter-byte delay.                     *)
C17_Original == (pc = At("BLE_DATA", "drain")) ~> (pc = At("BLE_DATA", "ret"))

----------------------------------------------------------------------------
(* The join-finished block of lora_data_handler, lines 209-232, statement  *)
(* by statement, with the session keys held by the radio stack. The        *)
(* tx-finished handling runs beside it, so the failure counter moves.      *)

MaxKey == 2

Keys == 1..MaxKey

OutOfScope == -1

JoinRetry_Always(ok) == TRUE

(* lmh_join() is called by the handler: line 231 is a comment              *)
JoinRetry(ok) == FALSE

GetSkey_KeepFirst(buf, key) == IF buf = OutOfScope THEN key ELSE buf

(* lmh_getNwSkey(buf), lmh_getAppSkey(buf): the stack's key is copied into  *)
(* the buffer                                                              *)
GetSkey(buf, key) == key

(* what the handler holds of the keys: the one buffer session_key[16]      *)
Held == IF session_key = OutOfScope THEN {} ELSE {session_key}

(* the radio stack's join callback: on success the stack holds new keys    *)
JoinCbKeys ==
    /\ pc # Halted
    /\ \E ok \in BOOLEAN :
          /\ g_join_result' = ok
          /\ g_lpwan_has_joined' = ok
          /\ IF ok
             THEN \E n \in Keys, a \in Keys : nwk_skey' = n /\ app_skey' = a
             ELSE UNCHANGED <<nwk_skey, app_skey>>
    /\ SetBit("LORA_JOIN_FIN")
    /\ UNCHANGED <<reg, pc, config, g_rx_fin_result, status, logs, counter,
                   session_key, key_log, join_calls, battv, hexv, blev, coalv>>

(* lines 209-213 and 227-232: if (g_join_result), then the first log line  *)
(* and lmh_getNwSkey(session_key), or the failure branch                   *)
JoinEnter ==
    /\ pc = At("LORA_JOIN_FIN", "body")
    /\ IF g_join_result
       THEN /\ logs' = logs \cup {"Successfully joined network"}
            /\ session_key' = GetSkey(session_key, nwk_skey)
            /\ join_calls' = join_calls
            /\ pc' = At("LORA_JOIN_FIN", "nwk")
       ELSE /\ logs' = logs \cup JoinLog(FALSE)
            /\ session_key' = session_key
            /\ join_calls' = IF JoinRetry(FALSE) THEN join_calls + 1
                             ELSE join_calls
            /\ pc' = At("LORA_JOIN_FIN", "ret")
    /\ UNCHANGED <<flags, config, radio, status, counter, nwk_skey, app_skey,
                   key_log, battv, hexv, blev, coalv>>

(* lines 214-219: the buffer is logged as NwSkey, then                     *)
(* lmh_getAppSkey(session_key) writes the same buffer                      *)
JoinNwk ==
    /\ pc = At("LORA_JOIN_FIN", "nwk")
    /\ logs' = logs \cup {"NwSkey"}
    /\ key_log' = Append(key_log, session_key)
    /\ session_key' = GetSkey(session_key, app_skey)
    /\ pc' = At("LORA_JOIN_FIN", "app")
    /\ UNCHANGED <<flags, config, radio, status, counter, nwk_skey, app_skey,
                   join_calls, battv, hexv, blev, coalv>>

(* lines 220-227: the buffer is logged as AppSkey, the device address is   *)
(* logged, and the block ends: session_key goes out of scope               *)
JoinApp ==
    /\ pc = At("LORA_JOIN_FIN", "app")
    /\ logs' = logs \cup {"AppSkey", "DevAddr"}
    /\ key_log' = Append(key_log, session_key)
    /\ session_key' = OutOfScope
    /\ pc' = At("LORA_JOIN_FIN", "ret")
    /\ UNCHANGED <<flags, config, radio, status, counter, nwk_skey, app_skey,
                   join_calls, battv, hexv, blev, coalv>>

JoinKinds == {"LORA_JOIN_FIN", "LORA_TX_FIN"}

JoinLoop ==
    \/ DispatchStart
    \/ \E k \in Kinds : Test(k)
    \/ \E k \in JoinKinds : Load(k)
    \/ \E k \in JoinKinds : Store(k)
    \/ JoinEnter
    \/ JoinNwk
    \/ JoinApp
    \/ TxLog
    \/ TxCount
    \/ ApiReset
    \/ \E k \in JoinKinds : Return(k)

NextJoin == JoinCbKeys \/ TxCb \/ JoinLoop \/ Reboot

SpecJoin == Init /\ [][NextJoin]_vars

JoinFailed == pc = At("LORA_JOIN_FIN", "ret") /\ "Join network failed" \in logs

JoinSucceeded ==
    pc = At("LORA_JOIN_FIN", "ret") /\ "Successfully joined network" \in logs

(* C14: the handling of a join-finished event read as failed calls neither *)
(* lmh_join, api_reset nor a send function, and leaves the failure         *)
(* counter, the payload, the radio stack's session keys and the handler's  *)
(* key buffer as they were; it only writes the log line.                   *)
C14_FailureOnlyLogs ==
    [][ (pc = At("LORA_JOIN_FIN", "body") /\ ~g_join_result /\ pc' # pc) =>
            /\ pc' = At("LORA_JOIN_FIN", "ret")
            /\ logs' = logs \cup {"Join network failed"}
            /\ UNCHANGED <<join_calls, api_reset_calls, lora_calls, p2p_calls,
                           send_fail, payload, nwk_skey, app_skey,
                           session_key, g_lpwan_has_joined>> ]_vars

C14_Witness ==
    /\ JoinFailed
    /\ send_fail > 0
    /\ nwk_skey \in Keys
    /\ app_skey \in Keys
    /\ nwk_skey # app_skey

(* C15 as stated: after the handling of a join-finished event read as      *)
(* successful, with no further join callback in between, the handler's     *)
(* state holds both the network and the application session key of the     *)
(* radio stack.                                                            *)
C15_Original ==
    (JoinSucceeded /\ ~re_set) => (nwk_skey \in Held /\ app_skey \in Held)

(* C15 amended: the handler reads the network key and then the application *)
(* key into one buffer, so it never holds more than one key, the           *)
(* application key replaces the network key in it, and after the handling  *)
(* it holds none; both keys have been logged in that order and are still   *)
(* held by the radio stack.                                                *)
C15_LoggedNotKept ==
    /\ Cardinality(Held) <= 1
    /\ (pc = At("LORA_JOIN_FIN", "nwk") /\ ~re_set) =>
          (Held = {nwk_skey} /\ key_log = <<>>)
    /\ (pc = At("LORA_JOIN_FIN", "app") /\ ~re_set) =>
          (Held = {app_skey} /\ key_log = <<nwk_skey>>)
    /\ JoinSucceeded => (Held = {} /\ Len(key_log) = 2)
    /\ (JoinSucceeded /\ ~re_set) =>
          (key_log = <<nwk_skey, app_skey>> /\ {nwk_skey, app_skey} \subseteq Keys)

C15_Witness ==
    /\ JoinSucceeded
    /\ ~re_set
    /\ nwk_skey # app_skey
    /\ key_log = <<nwk_skey, app_skey>>
    /\ Held = {}

----------------------------------------------------------------------------
(* Coalescing of repeated sets: the producers run between two dispatch     *)
(* cycles, any number of times, and the sets of each kind are counted up   *)
(* to the clear that consumes them. Every transmission is acknowledged     *)
(* here, so the failure counter stays out of the way.                      *)

MaxSets == 3

Passed(k) == pc.k \in Kinds /\ Index(KindSeq, k) < Index(KindSeq, pc.k)

(* a producer's callback between two cycles                                *)
SetIdle ==
    /\ pc = Idle
    /\ \E k \in Kinds, flag \in BOOLEAN :
          /\ SetBit(k)
          /\ sets' = [sets EXCEPT ![k] = IF @ < MaxSets THEN @ + 1 ELSE @]
          /\ g_join_result' = IF k = "LORA_JOIN_FIN" THEN flag ELSE g_join_result
          /\ g_lpwan_has_joined' =
                IF k = "LORA_JOIN_FIN" THEN flag ELSE g_lpwan_has_joined
          /\ g_rx_fin_result' = IF k = "LORA_TX_FIN" THEN TRUE ELSE g_rx_fin_result
    /\ UNCHANGED <<reg, pc, config, status, logs, counter, consumed, battv,
                   hexv, blev, joinv>>

(* the store of the clear takes every set of the kind made so far          *)
StoreCounted(k) ==
    /\ StoreMasked(k)
    /\ consumed' = sets[k]
    /\ sets' = [sets EXCEPT ![k] = 0]

CoalesceLoop ==
    \/ DispatchStart
    \/ \E k \in Kinds : Test(k)
    \/ \E k \in Kinds : LogFirst(k)
    \/ \E k \in Kinds : Load(k)
    \/ \E k \in Kinds : StoreCounted(k)
    \/ StatusBuild
    \/ StatusAdd
    \/ StatusSend
    \/ JoinBody
    \/ DataBody
    \/ TxLog
    \/ TxCount
    \/ BleBody
    \/ \E k \in Kinds : Return(k)

NextCoalesce == SetIdle \/ CoalesceLoop

SpecCoalesce == Init /\ [][NextCoalesce]_vars

(* C11: whatever number of sets of a kind were made between two cycles,    *)
(* the bit is set exactly when at least one set is waiting; the one        *)
(* handling of the kind in the next cycle takes all of them and leaves     *)
(* none waiting and the bit clear, so the kind is not handled again; a     *)
(* status handling builds one payload and makes at most one send call.     *)
C11_Coalesce ==
    /\ \A k \in Kinds :
          /\ (k \in g_task_event_type) <=> (sets[k] >= 1)
          /\ (pc.k = k /\ Cleared) => (consumed >= 1 /\ sets[k] = 0)
          /\ Passed(k) => k \notin g_task_event_type
    /\ pc = StatusRet => (payload = 1 /\ lora_calls + p2p_calls <= 1)

C11_Witness ==
    /\ pc = StatusRet
    /\ consumed = MaxSets
    /\ payload = 1
    /\ lora_calls + p2p_calls = 1
    /\ "STATUS" \notin g_task_event_type

====
